---- MODULE Spec2Model ----
(***************************************************************************)
(* A model of the NeuralOS backend (src/backend/main.py): the note         *)
(* handlers over the Record Store (the "notes" and "search_logs" tables)   *)
(* and the Vector Index, the search and stats handlers, and the streak     *)
(* calculator.  Every handler is one action that runs the whole handler;   *)
(* an outbound call that raises is the action's input "fail".              *)
(***************************************************************************)
EXTENDS Integers, Sequences, FiniteSets, TLC

\* ------------------------------------------------------------------ bounds
\* Clock ticks per calendar day: a timestamp ts falls on day ts \div DayLen.
DayLen == 2
\* Days 0..MaxDay are the days the streak calculator's inputs are drawn from.
MaxDay == 5
\* Longest list of activity records handed to the streak calculator.
MaxLen == 4

\* --------------------------------------------------------- streak calculator
\* created_at values of the activity rows: clock readings, or Unparseable for a
\* value datetime.fromisoformat rejects (the code skips such a row).
Unparseable == -1

ActivityStamps ==
    { d * DayLen : d \in 0..MaxDay } \cup { MaxDay * DayLen + (DayLen - 1) } \cup { Unparseable }

Activities == UNION { [1..n -> [created_at : ActivityStamps]] : n \in 0..MaxLen }

\* datetime.fromisoformat(...).date(): the calendar day of a clock reading.
DateOf(ts) == ts \div DayLen

Parseable(a) == a.created_at # Unparseable

\* The loop of lines 547-553: the set of the dates of the rows that parse.
DateSet(acts) == { DateOf(acts[i].created_at) : i \in { j \in 1..Len(acts) : Parseable(acts[j]) } }

SetMax(S) == CHOOSE x \in S : \A y \in S : y <= x

RECURSIVE SortedDesc(_)
\* sorted(dates, reverse=True)
SortedDesc(S) == IF S = {} THEN << >> ELSE <<SetMax(S)>> \o SortedDesc(S \ {SetMax(S)})

RECURSIVE StreakLoopNoBreak(_, _, _)
StreakLoopNoBreak(sd, i, streak) ==
    IF i > Len(sd) THEN streak
    ELSE StreakLoopNoBreak(sd, i + 1, IF sd[i-1] - sd[i] = 1 THEN streak + 1 ELSE streak)

RECURSIVE StreakLoop(_, _, _)
\* for i in range(1, len(sorted_dates)): (1-based here) count while the gap is one
\* day, break at the first other gap.
StreakLoop(sd, i, streak) ==
    IF i > Len(sd) THEN streak
    ELSE IF sd[i-1] - sd[i] = 1 THEN StreakLoop(sd, i + 1, streak + 1)
    ELSE streak

RECURSIVE SortedDescSeq(_)
SortedDescSeq(s) ==
    IF s = << >> THEN << >>
    ELSE LET m == SetMax({ s[i] : i \in 1..Len(s) })
             k == CHOOSE i \in 1..Len(s) : s[i] = m
         IN <<m>> \o SortedDescSeq(SubSeq(s, 1, k - 1) \o SubSeq(s, k + 1, Len(s)))

ParsedDates(acts) == 
    LET ok == SelectSeq(acts, Parseable)
    IN [i \in 1..Len(ok) |-> DateOf(ok[i].created_at)]

calculate_streak_list(activities) ==
    IF activities = << >> THEN 0
    ELSE IF ParsedDates(activities) = << >> THEN 0
    ELSE StreakLoop(SortedDescSeq(ParsedDates(activities)), 2, 1)

calculate_streak(activities) ==
    IF activities = << >> THEN 0
    ELSE IF DateSet(activities) = {} THEN 0
    ELSE StreakLoop(SortedDesc(DateSet(activities)), 2, 1)

\* ------------------------------------------------------------- note service
\* Readings of the clock a run may store.
MaxClock == 3

Users == {"u1", "u2"}
\* The ids uuid4() can give; NoId stands where a request names no note.
NoteIds == {"n1", "n2"}
NoId == ""
Titles == {"Untitled Note", "t"}
Contents == {"c", "d"}
TagLists == {<< >>, <<"x">>}

\* An Optional[...] value: {} is None, {v} is the value v.
Opt(S) == {{}} \cup { {v} : v \in S }
Supplied(o) == o # {}
Val(o) == CHOOSE v \in o : TRUE

\* NoteCreate bodies: one owner's note with the default title and no tag, the
\* other owner's with a title and a tag.
NoteCreate ==
    { [title |-> "Untitled Note", content |-> "c", user_id |-> "u1", tags |-> << >>],
      [title |-> "t", content |-> "d", user_id |-> "u2", tags |-> <<"x">>] }

UpdateFields == {"title", "content", "tags", "is_favorite", "is_archived", "is_deleted"}

NoteUpdateAll ==
    [title : Opt(Titles), content : Opt(Contents), tags : Opt(TagLists),
     is_favorite : Opt(BOOLEAN), is_archived : Opt(BOOLEAN), is_deleted : Opt(BOOLEAN)]

SuppliedFields(u) == { f \in UpdateFields : Supplied(u[f]) }

EmptyUpdate ==
    [title |-> {}, content |-> {}, tags |-> {}, is_favorite |-> {}, is_archived |-> {},
     is_deleted |-> {}]

\* NoteUpdate bodies of the runs: nothing, one text field, or the three
\* lifecycle flags.
NoteUpdate ==
    { EmptyUpdate,
      [EmptyUpdate EXCEPT !.title = {"t"}],
      [EmptyUpdate EXCEPT !.content = {"d"}],
      [EmptyUpdate EXCEPT !.tags = {<<"x">>}],
      [EmptyUpdate EXCEPT !.is_favorite = {TRUE}, !.is_archived = {TRUE}, !.is_deleted = {TRUE}] }

\* limit and offset of a listing: the defaults, and the two pages of one row.
DefaultLimit == 50
Pages == { [limit |-> DefaultLimit, offset |-> 0], [limit |-> 1, offset |-> 0],
           [limit |-> 1, offset |-> 1] }
FilterTypes == {"all", "favorites", "archived", "trash", "recent"}

\* limit of a search: the default, and one.
DefaultTopK == 5
TopKs == {1, DefaultTopK}

\* The Record Store queries of get_user_stats, in the order it makes them.
StatsQueries == <<"total", "favorites", "archived", "searches", "activities">>
DaysPerWeek == 7
StreakWindow == 30

VARIABLES
    notes,         \* the Record Store's notes table: a set of rows, id the key
    vectors,       \* the Vector Index: a set of entries, id the key
    search_logs,   \* the Record Store's search_logs table
    clock,         \* the next reading of datetime.utcnow()
    issued,        \* the ids uuid4() has given
    last           \* the last request: its arguments, outbound calls and response

VARIABLES
    acts,          \* the streak calculator's argument
    streak_out     \* its result: {} before the call, {n} once it returned n

VARIABLES
    procs          \* the request each server process has in hand, call by call

vars == <<notes, vectors, search_logs, clock, issued, last, acts, streak_out, procs>>

\* ------------------------------------------------------- store primitives
MatchId(rows, note_id, user_id) == { r \in rows : r.id = note_id }

MatchOwner(rows, note_id, user_id) == { r \in rows : r.user_id = user_id }

\* .eq("id", note_id).eq("user_id", user_id)
Match(rows, note_id, user_id) == { r \in rows : r.id = note_id /\ r.user_id = user_id }

\* table.update(...).eq(...).execute(): the matching rows are rewritten in place.
UpdateWhere(rows, new) == { IF r \in DOMAIN new THEN new[r] ELSE r : r \in rows }

UpsertIfAbsent(index, entry) ==
    IF \E e \in index : e.id = entry.id THEN index ELSE index \cup {entry}

\* pinecone_index.upsert: the entry replaces the one with its id.
Upsert(index, entry) == { e \in index : e.id # entry.id } \cup {entry}

DeleteIdsNone(index, ids) == index

\* pinecone_index.delete(ids=...)
DeleteIds(index, ids) == { e \in index : e.id \notin ids }

\* generate_embedding(f"{title} {content}"): the vector is a function of the text.
generate_embedding(title, content) == <<"embedding", title, " ", content>>

VectorEntry(note_id, title, content, user_id, created_at) ==
    [id |-> note_id,
     values |-> generate_embedding(title, content),
     metadata |-> [text |-> content, title |-> title, user_id |-> user_id,
                   created_at |-> created_at]]

\* What a handler's try block ends with, and what its except clause makes of it:
\* every handler below but get_user_stats catches Exception, the HTTPException of
\* a missing note included, and raises HTTPException(status_code=500, detail=str(e)).
NotFound404 == "404: Note not found"
APIError == "APIError"
UpstreamError == "UpstreamError"

Returned(value) == [status |-> 200, body |-> value]
ExceptTo500(e) == [status |-> 500, body |-> [detail |-> e]]

\* The tag of a request for the one that follows it.
OpTag(r) ==
    IF r.op = "delete_note"
    THEN (IF r.args.permanent THEN "hard_delete" ELSE "soft_delete")
    ELSE r.op

\* The record of a request.  pre and follows are history: the rows the request's
\* selection (for a search, the Vector Index query) gave before it wrote, and the tag of the request right before it when
\* that one succeeded on the same existing note for the same owner.
Request(op, note_id, user_id, args, fail, calls, response, pre) ==
    [op |-> op, note_id |-> note_id, user_id |-> user_id, args |-> args,
     fail |-> fail, calls |-> calls, status |-> response.status, resp |-> response.body,
     pre |-> pre,
     follows |-> IF /\ note_id # NoId
                    /\ last.note_id = note_id
                    /\ last.user_id = user_id
                    /\ last.status = 200
                    /\ last.pre # {}
                 THEN OpTag(last) ELSE "none"]

\* A run ends when the clock has given MaxClock stored readings.  A reading is
\* counted when it is stored: a later reading is later than every stored timestamp.
Tick(stored) ==
    /\ clock <= MaxClock
    /\ clock' = IF stored THEN clock + 1 ELSE clock

\* ------------------------------------------------------------ create_note
\* The outbound calls of a handler in the order of its code: the calls made when
\* the call named fail raises, and whether a call returned before that.
Position(steps, step) == CHOOSE i \in 1..Len(steps) : steps[i] = step

CallsUntil(steps, fail) ==
    IF fail = "none" THEN steps ELSE SubSeq(steps, 1, Position(steps, fail))

Succeeds(steps, fail, step) ==
    fail = "none" \/ Position(steps, step) < Position(steps, fail)

CreateStepsPersistFirst == <<"embed", "insert", "upsert">>

\* lines 144, 147 and 172
CreateSteps == <<"embed", "upsert", "insert">>

\* note_data of lines 159-170.
NoteData(note_id, note, now) ==
    [id |-> note_id, user_id |-> note.user_id, title |-> note.title,
     content |-> note.content, tags |-> note.tags,
     is_favorite |-> FALSE, is_archived |-> FALSE, is_deleted |-> FALSE,
     created_at |-> now, updated_at |-> now]

create_note(note, fail) ==
    LET note_id == CHOOSE i \in NoteIds \ issued : TRUE
        now == clock
        entry == VectorEntry(note_id, note.title, note.content, note.user_id, now)
        note_data == NoteData(note_id, note, now)
        indexed == Succeeds(CreateSteps, fail, "upsert")
        inserted == Succeeds(CreateSteps, fail, "insert")
    IN  /\ NoteIds \ issued # {}
        /\ vectors' = IF indexed THEN Upsert(vectors, entry) ELSE vectors
        /\ notes' = IF inserted THEN notes \cup {note_data} ELSE notes
        /\ issued' = IF indexed \/ inserted THEN issued \cup {note_id} ELSE issued
        /\ Tick(indexed \/ inserted)
        /\ last' = Request("create_note", note_id, note.user_id, note, fail,
                           CallsUntil(CreateSteps, fail),
                           IF fail = "none" THEN Returned(note_data)
                           ELSE ExceptTo500(UpstreamError), {})
        /\ UNCHANGED <<search_logs, acts, streak_out, procs>>

\* ------------------------------------------------------------ update_note
ApplyUpdateReplace(r, update, now) ==
    [r EXCEPT !.updated_at = now,
              !.title = IF Supplied(update.title) THEN Val(update.title) ELSE @,
              !.content = IF Supplied(update.content) THEN Val(update.content) ELSE @,
              !.tags = IF Supplied(update.tags) THEN Val(update.tags) ELSE << >>,
              !.is_favorite = IF Supplied(update.is_favorite) THEN Val(update.is_favorite) ELSE FALSE,
              !.is_archived = IF Supplied(update.is_archived) THEN Val(update.is_archived) ELSE FALSE,
              !.is_deleted = IF Supplied(update.is_deleted) THEN Val(update.is_deleted) ELSE FALSE]

ApplyUpdateRestamp(r, update, now) ==
    [r EXCEPT !.updated_at = now, !.created_at = now,
              !.title = IF Supplied(update.title) THEN Val(update.title) ELSE @,
              !.content = IF Supplied(update.content) THEN Val(update.content) ELSE @,
              !.tags = IF Supplied(update.tags) THEN Val(update.tags) ELSE @,
              !.is_favorite = IF Supplied(update.is_favorite) THEN Val(update.is_favorite) ELSE @,
              !.is_archived = IF Supplied(update.is_archived) THEN Val(update.is_archived) ELSE @,
              !.is_deleted = IF Supplied(update.is_deleted) THEN Val(update.is_deleted) ELSE @]

\* update_data of lines 237-250 applied to a row.
ApplyUpdate(r, update, now) ==
    [r EXCEPT !.updated_at = now,
              !.title = IF Supplied(update.title) THEN Val(update.title) ELSE @,
              !.content = IF Supplied(update.content) THEN Val(update.content) ELSE @,
              !.tags = IF Supplied(update.tags) THEN Val(update.tags) ELSE @,
              !.is_favorite = IF Supplied(update.is_favorite) THEN Val(update.is_favorite) ELSE @,
              !.is_archived = IF Supplied(update.is_archived) THEN Val(update.is_archived) ELSE @,
              !.is_deleted = IF Supplied(update.is_deleted) THEN Val(update.is_deleted) ELSE @]

update_note(note_id, user_id, update, fail) ==
    LET now == clock
        pre == Match(notes, note_id, user_id)
        written == UpdateWhere(notes, [r \in pre |-> ApplyUpdate(r, update, now)])
        data == Match(written, note_id, user_id)
        reembed == Supplied(update.content) \/ Supplied(update.title)
        note == CHOOSE r \in data : TRUE
        entry == VectorEntry(note_id, note.title, note.content, user_id, note.created_at)
        calls == CASE fail = "update" \/ data = {} \/ ~reembed -> <<"update">>
                   [] fail = "embed" -> <<"update", "embed">>
                   [] OTHER -> <<"update", "embed", "upsert">>
        response == CASE fail = "update" -> ExceptTo500(APIError)
                      [] data = {} -> ExceptTo500(NotFound404)
                      [] fail \in {"embed", "upsert"} -> ExceptTo500(UpstreamError)
                      [] OTHER -> Returned(note)
    IN  /\ fail \in {"embed", "upsert"} => (reembed /\ pre # {})
        /\ notes' = IF fail = "update" THEN notes ELSE written
        /\ vectors' = IF fail = "none" /\ data # {} /\ reembed
                      THEN Upsert(vectors, entry) ELSE vectors
        /\ Tick(fail # "update" /\ pre # {})
        /\ last' = Request("update_note", note_id, user_id, update, fail, calls, response, pre)
        /\ UNCHANGED <<search_logs, issued, acts, streak_out, procs>>

\* ------------------------------------------------------------ delete_note
HardDeleteStepsIndexFirst == <<"pinecone_delete", "delete">>

\* lines 285 and 287
HardDeleteSteps == <<"delete", "pinecone_delete">>

TrashRowNoStamp(r, now) == [r EXCEPT !.is_deleted = TRUE]

\* The soft delete's update of lines 293-296.
TrashRow(r, now) == [r EXCEPT !.is_deleted = TRUE, !.updated_at = now]

delete_note(note_id, user_id, permanent, fail) ==
    LET now == clock
        pre == Match(notes, note_id, user_id)
        trashed == UpdateWhere(notes, [r \in pre |-> TrashRow(r, now)])
        calls == IF permanent THEN CallsUntil(HardDeleteSteps, fail) ELSE <<"update">>
        response == CASE fail \in {"delete", "update"} -> ExceptTo500(APIError)
                      [] permanent -> Returned([status |-> "permanently_deleted", note_id |-> note_id])
                      [] OTHER -> Returned([status |-> "moved_to_trash", note_id |-> note_id])
    IN  /\ fail \in (IF permanent THEN {"none", "delete", "pinecone_delete"} ELSE {"none", "update"})
        /\ notes' = CASE fail = "update" -> notes
                      [] permanent -> IF Succeeds(HardDeleteSteps, fail, "delete")
                                      THEN notes \ pre ELSE notes
                      [] OTHER -> trashed
        \* except: pass -- a failed Vector Index delete is dropped.
        /\ vectors' = IF permanent /\ Succeeds(HardDeleteSteps, fail, "pinecone_delete")
                      THEN DeleteIds(vectors, {note_id}) ELSE vectors
        /\ Tick(~permanent /\ fail = "none" /\ pre # {})
        /\ last' = Request("delete_note", note_id, user_id, [permanent |-> permanent], fail,
                           calls, response, pre)
        /\ UNCHANGED <<search_logs, issued, acts, streak_out, procs>>

\* ----------------------------------------------------------- restore_note
RestoreRowNoClear(r, now) == [r EXCEPT !.updated_at = now]

RestoreRow(r, now) == [r EXCEPT !.is_deleted = FALSE, !.updated_at = now]

restore_note(note_id, user_id, fail) ==
    LET now == clock
        pre == Match(notes, note_id, user_id)
        written == UpdateWhere(notes, [r \in pre |-> RestoreRow(r, now)])
        data == Match(written, note_id, user_id)
        response == CASE fail = "update" -> ExceptTo500(APIError)
                      [] data = {} -> ExceptTo500(NotFound404)
                      [] OTHER -> Returned([status |-> "restored", note_id |-> note_id])
    IN  /\ notes' = IF fail = "update" THEN notes ELSE written
        /\ Tick(fail = "none" /\ pre # {})
        /\ last' = Request("restore_note", note_id, user_id, << >>, fail, <<"update">>,
                           response, pre)
        /\ UNCHANGED <<vectors, search_logs, issued, acts, streak_out, procs>>

\* ------------------------------------------- toggle_favorite, toggle_archive
\* Both handlers are the same code over one flag.  .single().execute() on no row
\* raises in the client, or gives no data and line 328/350 raises the 404: either
\* way the exception reaches the handler's except clause.
NewStatusSame(flag) == flag

NewStatus(flag) == ~flag

toggle(op, field, note_id, user_id, fail, missing) ==
    LET now == clock
        pre == Match(notes, note_id, user_id)
        note == CHOOSE r \in pre : TRUE
        new_status == NewStatus(note[field])
        written == UpdateWhere(notes, [r \in pre |-> [r EXCEPT ![field] = new_status, !.updated_at = now]])
        calls == IF fail = "select" \/ pre = {} THEN <<"select">> ELSE <<"select", "update">>
        response == CASE fail = "select" -> ExceptTo500(APIError)
                      [] pre = {} -> ExceptTo500(missing)
                      [] fail = "update" -> ExceptTo500(APIError)
                      [] OTHER -> Returned((field :> new_status) @@ [status |-> "success"])
    IN  /\ fail = "update" => pre # {}
        /\ missing = (IF pre = {} /\ fail = "none" THEN missing ELSE NotFound404)
        /\ notes' = IF fail = "none" /\ pre # {} THEN written ELSE notes
        /\ Tick(fail = "none" /\ pre # {})
        /\ last' = Request(op, note_id, user_id, << >>, fail, calls, response, pre)
        /\ UNCHANGED <<vectors, search_logs, issued, acts, streak_out, procs>>

toggle_favorite(note_id, user_id, fail, missing) ==
    toggle("toggle_favorite", "is_favorite", note_id, user_id, fail, missing)

toggle_archive(note_id, user_id, fail, missing) ==
    toggle("toggle_archive", "is_archived", note_id, user_id, fail, missing)

\* ------------------------------------------------------------ empty_trash
empty_trash(user_id, fail) ==
    LET trashed == { r \in notes : r.user_id = user_id /\ r.is_deleted }
        note_ids == { n.id : n \in trashed }
        calls == CASE fail = "select" \/ trashed = {} -> <<"select">>
                   [] OTHER -> <<"select", "pinecone_delete", "delete">>
        response == IF fail \in {"select", "delete"} THEN ExceptTo500(APIError)
                    ELSE Returned([status |-> "success", deleted_count |-> Cardinality(trashed)])
    IN  /\ fail \in {"pinecone_delete", "delete"} => trashed # {}
        /\ vectors' = IF fail \in {"none", "delete"} THEN DeleteIds(vectors, note_ids) ELSE vectors
        /\ notes' = IF fail \in {"none", "pinecone_delete"}
                    THEN { r \in notes : ~(r.user_id = user_id /\ r.is_deleted) } ELSE notes
        /\ Tick(FALSE)
        /\ last' = Request("empty_trash", NoId, user_id, << >>, fail, calls, response, trashed)
        /\ UNCHANGED <<search_logs, issued, acts, streak_out, procs>>

\* -------------------------------------------------------------- get_notes
Min(a, b) == IF a < b THEN a ELSE b

RECURSIVE OrderByCreatedDesc(_)
\* .order("created_at", desc=True)
OrderByCreatedDesc(rows) ==
    IF rows = {} THEN << >>
    ELSE LET first == CHOOSE r \in rows : \A q \in rows : q.created_at <= r.created_at
         IN <<first>> \o OrderByCreatedDesc(rows \ {first})

\* .range(from, to): the rows at 0-based positions from..to.
Range(ordered, from, to) == SubSeq(ordered, from + 1, Min(to + 1, Len(ordered)))

FilterAllKeepArchived(rows, filter_type) ==
    CASE filter_type = "all" -> { r \in rows : ~r.is_deleted }
      [] filter_type = "favorites" -> { r \in rows : r.is_favorite /\ ~r.is_deleted }
      [] filter_type = "archived" -> { r \in rows : r.is_archived /\ ~r.is_deleted }
      [] filter_type = "trash" -> { r \in rows : r.is_deleted }
      [] OTHER -> rows

\* Lines 193-200: the filter of each filter_type; any other value filters nothing.
Filter(rows, filter_type) ==
    CASE filter_type = "all" -> { r \in rows : ~r.is_deleted /\ ~r.is_archived }
      [] filter_type = "favorites" -> { r \in rows : r.is_favorite /\ ~r.is_deleted }
      [] filter_type = "archived" -> { r \in rows : r.is_archived /\ ~r.is_deleted }
      [] filter_type = "trash" -> { r \in rows : r.is_deleted }
      [] OTHER -> rows

\* The search parameter is left at its default, None.
get_notes(user_id, filter_type, page, fail) ==
    LET owned == { r \in notes : r.user_id = user_id }
        ordered == OrderByCreatedDesc(Filter(owned, filter_type))
        data == Range(ordered, page.offset, page.offset + page.limit - 1)
    IN  /\ Tick(FALSE)
        /\ last' = Request("get_notes", NoId, user_id,
                           [filter_type |-> filter_type, limit |-> page.limit,
                            offset |-> page.offset],
                           fail, <<"select">>,
                           IF fail = "select" THEN ExceptTo500(APIError) ELSE Returned(data),
                           {})
        /\ UNCHANGED <<notes, vectors, search_logs, issued, acts, streak_out, procs>>

\* ----------------------------------------------------------- search_notes
NoResultsAnswer == "I couldn't find any notes matching your query."

SearchResult(m) ==
    [id |-> m.id, title |-> m.metadata.title, text |-> m.metadata.text,
     created_at |-> m.metadata.created_at]

\* The prefixes of the handler's outbound calls: what it has called when the call
\* named fail raises, or when it returns.
SearchCallsAlways(fail, found) ==
    CASE fail = "embed" -> <<"embed">>
      [] fail = "query" -> <<"embed", "query">>
      [] fail = "chat" -> <<"embed", "query", "chat">>
      [] OTHER -> <<"embed", "query", "chat", "insert">>

SearchCalls(fail, found) ==
    CASE fail = "embed" -> <<"embed">>
      [] fail = "query" \/ ~found -> <<"embed", "query">>
      [] fail = "chat" -> <<"embed", "query", "chat">>
      [] OTHER -> <<"embed", "query", "chat", "insert">>

LoggedWithoutMatch(fail, found) == fail = "none"

\* The search_logs row is inserted after the return of lines 409-413 and after the
\* completion, in a try of its own (lines 473-481).
Logged(fail, found) == found /\ fail = "none"

\* pinecone_index.query(top_k=limit, filter user_id): the limit nearest entries of
\* the owner, which ones being up to the embeddings.
search_notes(query, user_id, limit, fail, matches) ==
    LET now == clock
        owned == { e \in vectors : e.metadata.user_id = user_id }
        found == fail \notin {"embed", "query"} /\ matches # {}
        logged == Logged(fail, found)
        response == CASE fail \in {"embed", "query"} -> ExceptTo500(UpstreamError)
                      [] matches = {} -> Returned([answer |-> NoResultsAnswer, results |-> {}])
                      [] fail = "chat" -> ExceptTo500(UpstreamError)
                      [] OTHER -> Returned([answer |-> "ai_response",
                                            results |-> { SearchResult(m) : m \in matches }])
    IN  /\ matches \subseteq owned
        /\ Cardinality(matches) = Min(limit, Cardinality(owned))
        /\ fail \in {"chat", "log"} => matches # {}
        /\ search_logs' = IF logged
                          THEN search_logs \cup {[user_id |-> user_id, query |-> query,
                                                  results_count |-> Cardinality(matches),
                                                  created_at |-> now]}
                          ELSE search_logs
        /\ Tick(logged)
        /\ last' = Request("search_notes", NoId, user_id, [query |-> query, limit |-> limit],
                           fail, SearchCalls(fail, found), response,
                           IF fail \in {"embed", "query"} THEN {} ELSE matches)
        /\ UNCHANGED <<notes, vectors, issued, acts, streak_out, procs>>

\* --------------------------------------------------------- get_user_stats
ZeroStats ==
    [total_notes |-> 0, favorites_count |-> 0, archived_count |-> 0,
     searches_this_week |-> 0, ai_insights |-> 0, streak |-> 0]

\* .limit(n)
Limit(ordered, n) == SubSeq(ordered, 1, Min(n, Len(ordered)))

StatsFieldsCountTrash(user_id, fails) ==
    LET owned == { r \in notes : r.user_id = user_id }
    IN  [total_notes |-> Cardinality({ r \in owned : ~r.is_deleted }),
         favorites_count |-> Cardinality({ r \in owned : r.is_favorite }),
         archived_count |-> Cardinality({ r \in owned : r.is_archived }),
         searches_this_week |-> 0, ai_insights |-> 0, streak |-> 0]

\* The try block of lines 499-528: the three counts, then the weekly searches and
\* the streak, each of these two in a try of its own that gives 0 when it raises.
StatsFields(user_id, fails) ==
    LET owned == { r \in notes : r.user_id = user_id }
        week_ago == clock - DaysPerWeek * DayLen
        searches == { l \in search_logs : l.user_id = user_id /\ l.created_at >= week_ago }
        search_count == IF "searches" \in fails THEN 0 ELSE Cardinality(searches)
        ordered == Limit(OrderByCreatedDesc(owned), StreakWindow)
        activities == [i \in 1..Len(ordered) |-> [created_at |-> ordered[i].created_at]]
    IN  [total_notes |-> Cardinality({ r \in owned : ~r.is_deleted }),
         favorites_count |-> Cardinality({ r \in owned : r.is_favorite /\ ~r.is_deleted }),
         archived_count |-> Cardinality({ r \in owned : r.is_archived /\ ~r.is_deleted }),
         searches_this_week |-> search_count,
         ai_insights |-> search_count,
         streak |-> IF "activities" \in fails THEN 0 ELSE calculate_streak(activities)]

StatsReportEachCaught(user_id, fails) ==
    [StatsFields(user_id, fails) EXCEPT
        !.total_notes = IF "total" \in fails THEN 0 ELSE @,
        !.favorites_count = IF "favorites" \in fails THEN 0 ELSE @,
        !.archived_count = IF "archived" \in fails THEN 0 ELSE @]

\* One of the three counts raising ends in the outer except clause of lines
\* 530-540, which returns the zero report.
StatsReport(user_id, fails) ==
    IF fails \cap {"total", "favorites", "archived"} # {} THEN ZeroStats
    ELSE StatsFields(user_id, fails)

StatsResponseRaising(user_id, fails) ==
    IF fails \cap {"total", "favorites", "archived"} # {} THEN ExceptTo500(UpstreamError)
    ELSE Returned(StatsReport(user_id, fails))

\* The handler's response: the report, whatever failed (its except clause returns).
StatsResponse(user_id, fails) == Returned(StatsReport(user_id, fails))

\* The queries made: up to the first of the three counts that raises, else all five.
StatsCalls(fails) ==
    LET first == { i \in 1..3 : StatsQueries[i] \in fails }
    IN  IF first = {} THEN StatsQueries
        ELSE SubSeq(StatsQueries, 1, CHOOSE i \in first : \A j \in first : i <= j)

get_user_stats(user_id, fails) ==
    /\ Tick(FALSE)
    /\ last' = Request("get_user_stats", NoId, user_id, [fails |-> fails], "none",
                       StatsCalls(fails),
                       StatsResponse(user_id, fails),
                       {})
    /\ UNCHANGED <<notes, vectors, search_logs, issued, acts, streak_out, procs>>

\* ------------------------------------------------ the handlers call by call
\* The Record Store and the Vector Index are services outside the server process:
\* every .execute(), upsert and delete is a call of its own, and the stores are
\* shared by the server processes that serve the application.  A handler has no
\* await of its own, so one process serves its requests one after the other; the
\* calls of two processes interleave.  The embedding call reads and writes no
\* store and is taken together with the call that follows it.
Workers == {"w1", "w2"}

Free(w) == procs[w].pc \in {"idle", "done"}

InHand(p) == p.pc \notin {"idle", "done"}

\* A request in hand, as it starts.  shared records that another process wrote to
\* the request's note (for empty_trash, to a note of its owner) while it was in hand.
Started(pc, op, note_id, user_id, args, now, local) ==
    [pc |-> pc, op |-> op, note_id |-> note_id, user_id |-> user_id, args |-> args,
     now |-> now, local |-> local, shared |-> FALSE, status |-> 0, resp |-> << >>]

Idle == Started("idle", "none", NoId, "", << >>, 0, << >>)

Done(p, response) == [p EXCEPT !.pc = "done", !.status = response.status, !.resp = response.body]

Finished(op, note_id, user_id, args, now, local, response) ==
    Done(Started("done", op, note_id, user_id, args, now, local), response)

Touches(p, rows) ==
    \E r \in rows : r.id = p.note_id \/ (p.op = "empty_trash" /\ r.user_id = p.user_id)

\* Process w goes on as rec, having written or removed rows.
Hand(w, rec, rows) ==
    procs' = [u \in Workers |->
                 IF u = w THEN rec
                 ELSE IF InHand(procs[u]) /\ Touches(procs[u], rows)
                      THEN [procs[u] EXCEPT !.shared = TRUE]
                      ELSE procs[u]]

Key(note_id, user_id) == {[id |-> note_id, user_id |-> user_id]}

\* create_note, lines 140-144: the id, the reading of the clock, the embedding.
create_note_embed(w, note) ==
    LET note_id == CHOOSE i \in NoteIds \ issued : TRUE
    IN  /\ Free(w)
        /\ NoteIds \ issued # {}
        /\ Tick(TRUE)
        /\ issued' = issued \cup {note_id}
        /\ Hand(w, Started("upsert", "create_note", note_id, note.user_id, note, clock, << >>), {})
        /\ UNCHANGED <<notes, vectors, search_logs, last, acts, streak_out>>

\* lines 147-156
create_note_upsert(w) ==
    LET p == procs[w]
        entry == VectorEntry(p.note_id, p.args.title, p.args.content, p.user_id, p.now)
    IN  /\ p.pc = "upsert" /\ p.op = "create_note"
        /\ vectors' = Upsert(vectors, entry)
        /\ Hand(w, [p EXCEPT !.pc = "insert"], Key(p.note_id, p.user_id))
        /\ UNCHANGED <<notes, search_logs, clock, issued, last, acts, streak_out>>

\* lines 159-174
create_note_insert(w) ==
    LET p == procs[w]
        note_data == NoteData(p.note_id, p.args, p.now)
    IN  /\ p.pc = "insert" /\ p.op = "create_note"
        /\ notes' = notes \cup {note_data}
        /\ Hand(w, Done(p, Returned(note_data)), {note_data})
        /\ UNCHANGED <<vectors, search_logs, clock, issued, last, acts, streak_out>>

\* update_note, lines 237-256: update_data with its reading of the clock, the
\* update of the Record Store, the 404 on no row.
update_note_update(w, note_id, user_id, update) ==
    LET now == clock
        pre == Match(notes, note_id, user_id)
        written == UpdateWhere(notes, [r \in pre |-> ApplyUpdate(r, update, now)])
        data == Match(written, note_id, user_id)
        reembed == Supplied(update.content) \/ Supplied(update.title)
        note == CHOOSE r \in data : TRUE
    IN  /\ Free(w)
        /\ Tick(pre # {})
        /\ notes' = written
        /\ Hand(w, CASE data = {} -> Finished("update_note", note_id, user_id, update, now, pre,
                                               ExceptTo500(NotFound404))
                     [] reembed -> Started("upsert", "update_note", note_id, user_id, update, now, data)
                     [] OTHER -> Finished("update_note", note_id, user_id, update, now, data,
                                          Returned(note)),
                pre)
        /\ UNCHANGED <<vectors, search_logs, issued, last, acts, streak_out>>

\* lines 259-273
update_note_upsert(w) ==
    LET p == procs[w]
        note == CHOOSE r \in p.local : TRUE
        entry == VectorEntry(p.note_id, note.title, note.content, p.user_id, note.created_at)
    IN  /\ p.pc = "upsert" /\ p.op = "update_note"
        /\ vectors' = Upsert(vectors, entry)
        /\ Hand(w, Done(p, Returned(note)), Key(p.note_id, p.user_id))
        /\ UNCHANGED <<notes, search_logs, clock, issued, last, acts, streak_out>>

\* toggle_favorite and toggle_archive, lines 324-328 and 346-350: the select.
toggle_select(w, op, field, note_id, user_id) ==
    LET pre == Match(notes, note_id, user_id)
        note == CHOOSE r \in pre : TRUE
    IN  /\ Free(w)
        /\ clock <= MaxClock
        /\ Hand(w, IF pre = {}
                   THEN Finished(op, note_id, user_id, [field |-> field], clock, {},
                                 ExceptTo500(NotFound404))
                   ELSE Started("update", op, note_id, user_id, [field |-> field], clock,
                                {note[field]}),
                {})
        /\ UNCHANGED <<notes, vectors, search_logs, clock, issued, last, acts, streak_out>>

\* lines 331-337 and 353-359: the negation of the value read, and its update.
toggle_update(w) ==
    LET p == procs[w]
        now == clock
        field == p.args.field
        pre == Match(notes, p.note_id, p.user_id)
        new_status == NewStatus(Val(p.local))
        written == UpdateWhere(notes, [r \in pre |-> [r EXCEPT ![field] = new_status, !.updated_at = now]])
    IN  /\ p.pc = "update" /\ p.op \in {"toggle_favorite", "toggle_archive"}
        /\ notes' = written
        /\ clock' = IF pre # {} THEN clock + 1 ELSE clock
        /\ Hand(w, Done([p EXCEPT !.now = now],
                        Returned((field :> new_status) @@ [status |-> "success"])), pre)
        /\ UNCHANGED <<vectors, search_logs, issued, last, acts, streak_out>>

\* empty_trash, line 369: the enumeration of the trash.
empty_trash_select(w, user_id) ==
    LET trashed == { r \in notes : r.user_id = user_id /\ r.is_deleted }
        note_ids == { n.id : n \in trashed }
        local == [ids |-> note_ids, removed |-> {}, raised |-> FALSE]
    IN  /\ Free(w)
        /\ clock <= MaxClock
        /\ Hand(w, IF trashed = {}
                   THEN Finished("empty_trash", NoId, user_id, << >>, clock, local,
                                 Returned([status |-> "success", deleted_count |-> 0]))
                   ELSE Started("pinecone_delete", "empty_trash", NoId, user_id, << >>, clock, local),
                {})
        /\ UNCHANGED <<notes, vectors, search_logs, clock, issued, last, acts, streak_out>>

\* lines 375-378: a delete that raises is passed over.
empty_trash_pinecone_delete(w, fails) ==
    LET p == procs[w]
        gone == IF fails THEN {} ELSE { e \in vectors : e.id \in p.local.ids }
    IN  /\ p.pc = "pinecone_delete" /\ p.op = "empty_trash"
        /\ vectors' = IF fails THEN vectors ELSE DeleteIds(vectors, p.local.ids)
        /\ Hand(w, [p EXCEPT !.pc = "delete", !.local.raised = fails],
                { [id |-> e.id, user_id |-> e.metadata.user_id] : e \in gone })
        /\ UNCHANGED <<notes, search_logs, clock, issued, last, acts, streak_out>>

\* lines 381-383
empty_trash_delete(w) ==
    LET p == procs[w]
        gone == { r \in notes : r.user_id = p.user_id /\ r.is_deleted }
    IN  /\ p.pc = "delete" /\ p.op = "empty_trash"
        /\ notes' = notes \ gone
        /\ Hand(w, Done([p EXCEPT !.local.removed = { r.id : r \in gone }],
                        Returned([status |-> "success",
                                  deleted_count |-> Cardinality(p.local.ids)])), gone)
        /\ UNCHANGED <<vectors, search_logs, clock, issued, last, acts, streak_out>>

\* ------------------------------------------------------------------ specs
NoRequest ==
    [op |-> "none", note_id |-> NoId, user_id |-> "", args |-> << >>, fail |-> "none",
     calls |-> << >>, status |-> 0, resp |-> << >>, pre |-> {}, follows |-> "none"]

StoreInit ==
    /\ notes = {}
    /\ vectors = {}
    /\ search_logs = {}
    /\ clock = 1
    /\ issued = {}
    /\ last = NoRequest
    /\ procs = [w \in Workers |-> Idle]

Init == StoreInit /\ acts = << >> /\ streak_out = {}

\* The note service and the listing, no outbound call failing.
Next ==
    \/ \E note \in NoteCreate : create_note(note, "none")
    \/ \E note_id \in NoteIds, user_id \in Users, update \in NoteUpdate :
          update_note(note_id, user_id, update, "none")
    \/ \E note_id \in NoteIds, user_id \in Users, permanent \in BOOLEAN :
          delete_note(note_id, user_id, permanent, "none")
    \/ \E note_id \in NoteIds, user_id \in Users : restore_note(note_id, user_id, "none")
    \/ \E note_id \in NoteIds, user_id \in Users, missing \in {NotFound404, APIError} :
          toggle_favorite(note_id, user_id, "none", missing)
    \/ \E note_id \in NoteIds, user_id \in Users, missing \in {NotFound404, APIError} :
          toggle_archive(note_id, user_id, "none", missing)
    \/ \E user_id \in Users : empty_trash(user_id, "none")
    \/ \E user_id \in Users, filter_type \in FilterTypes, page \in Pages :
          get_notes(user_id, filter_type, page, "none")

Spec == Init /\ [][Next]_vars

\* Search and stats over the notes that create, delete and the toggles leave, the
\* outbound calls of search and the queries of stats failing in every combination.
NextSearch ==
    \/ \E note \in NoteCreate : create_note(note, "none")
    \/ \E note_id \in NoteIds, user_id \in Users, permanent \in BOOLEAN :
          delete_note(note_id, user_id, permanent, "none")
    \/ \E note_id \in NoteIds, user_id \in Users :
          toggle_favorite(note_id, user_id, "none", NotFound404)
    \/ \E note_id \in NoteIds, user_id \in Users :
          toggle_archive(note_id, user_id, "none", NotFound404)
    \/ \E user_id \in Users, limit \in TopKs, matches \in SUBSET vectors,
          fail \in {"none", "embed", "query", "chat", "log"} :
          search_notes("q", user_id, limit, fail, matches)
    \/ \E user_id \in Users, fails \in SUBSET { StatsQueries[i] : i \in 1..Len(StatsQueries) } :
          get_user_stats(user_id, fails)

SpecSearch == Init /\ [][NextSearch]_vars

\* The server processes, each serving its requests one after the other, their
\* calls to the stores interleaving.  The requests that name a note name a note of
\* the table with its owner; the updates are one that re-embeds and one that does
\* not (and moves the note to the trash).
ConcUpdates == { u \in NoteUpdate : SuppliedFields(u) \in {{"title"}, {"is_favorite", "is_archived", "is_deleted"}} }

NextConc ==
    \/ \E w \in Workers, note \in NoteCreate : create_note_embed(w, note)
    \/ \E w \in Workers : create_note_upsert(w)
    \/ \E w \in Workers : create_note_insert(w)
    \/ \E w \in Workers, r \in notes, update \in ConcUpdates :
          update_note_update(w, r.id, r.user_id, update)
    \/ \E w \in Workers : update_note_upsert(w)
    \/ \E w \in Workers, r \in notes :
          toggle_select(w, "toggle_favorite", "is_favorite", r.id, r.user_id)
    \/ \E w \in Workers, r \in notes :
          toggle_select(w, "toggle_archive", "is_archived", r.id, r.user_id)
    \/ \E w \in Workers : toggle_update(w)
    \/ \E w \in Workers, user_id \in Users : empty_trash_select(w, user_id)
    \/ \E w \in Workers, fails \in BOOLEAN : empty_trash_pinecone_delete(w, fails)
    \/ \E w \in Workers : empty_trash_delete(w)

SpecConc == Init /\ [][NextConc]_vars

\* The writing handlers one at a time, each of their outbound calls failing in turn.
CreateFails == {"none", "embed", "upsert", "insert"}
UpdateFails == {"none", "update", "embed", "upsert"}
DeleteFails == {"none", "update", "delete", "pinecone_delete"}
TrashFails == {"none", "select", "pinecone_delete", "delete"}

NextFail ==
    \/ \E note \in NoteCreate, fail \in CreateFails : create_note(note, fail)
    \/ \E note_id \in NoteIds, user_id \in Users, update \in NoteUpdate, fail \in UpdateFails :
          update_note(note_id, user_id, update, fail)
    \/ \E note_id \in NoteIds, user_id \in Users, permanent \in BOOLEAN, fail \in DeleteFails :
          delete_note(note_id, user_id, permanent, fail)
    \/ \E user_id \in Users, fail \in TrashFails : empty_trash(user_id, fail)

SpecFail == Init /\ [][NextFail]_vars

\* The stats over the notes that create, update, delete and the toggles leave, no
\* query failing.
NextStats ==
    \/ \E note \in NoteCreate : create_note(note, "none")
    \/ \E note_id \in NoteIds, user_id \in Users, update \in NoteUpdate :
          update_note(note_id, user_id, update, "none")
    \/ \E note_id \in NoteIds, user_id \in Users :
          delete_note(note_id, user_id, FALSE, "none")
    \/ \E note_id \in NoteIds, user_id \in Users :
          toggle_favorite(note_id, user_id, "none", NotFound404)
    \/ \E note_id \in NoteIds, user_id \in Users :
          toggle_archive(note_id, user_id, "none", NotFound404)
    \/ \E user_id \in Users : get_user_stats(user_id, {})

SpecStats == Init /\ [][NextStats]_vars

\* The streak calculator alone, applied to every bounded list of activity rows.
StreakInit == StoreInit /\ acts \in Activities /\ streak_out = {}

CallStreak ==
    /\ streak_out = {}
    /\ streak_out' = {calculate_streak(acts)}
    /\ UNCHANGED <<acts, notes, vectors, search_logs, clock, issued, last, procs>>

SpecStreak == StreakInit /\ [][CallStreak]_vars

\* ------------------------------------------------------------------ claims
\* The dates of the rows of acts that parse.
ActDates == { DateOf(acts[i].created_at) : i \in { j \in 1..Len(acts) : acts[j].created_at # Unparseable } }

AllParse == \A i \in 1..Len(acts) : acts[i].created_at # Unparseable

\* C1: for a non-empty list of rows that all parse, calculate_streak returns the
\* length k of the run of consecutive days ending at the latest date D: the days
\* D, D-1, ..., D-(k-1) are all present and D-k is not.
C1_StreakIsRunEndingAtLatest ==
    (streak_out # {} /\ acts # << >> /\ AllParse) =>
        LET D == CHOOSE d \in ActDates : \A e \in ActDates : e <= d
            k == Val(streak_out)
        IN  /\ k >= 1
            /\ \A j \in 0..(k - 1) : (D - j) \in ActDates
            /\ (D - k) \notin ActDates

\* The dates {D, D-1, D-2, D-5} give 3.
C1_Witness ==
    /\ streak_out = {3}
    /\ AllParse
    /\ \E D \in 5..MaxDay : ActDates = {D, D - 1, D - 2, D - 5}

Swapped(s, i) == [k \in 1..Len(s) |-> IF k = i THEN s[i + 1] ELSE IF k = i + 1 THEN s[i] ELSE s[k]]

\* C2: calculate_streak depends only on the set of dates of its input: no row gives
\* 0, one date (any number of times) gives 1, and neither exchanging two rows nor
\* adding a row whose date is present already changes the result.
C2_StreakDependsOnDateSet ==
    (streak_out # {}) =>
        /\ acts = << >> => streak_out = {0}
        /\ Cardinality(ActDates) = 1 => streak_out = {1}
        /\ \A i \in 1..(Len(acts) - 1) : calculate_streak(Swapped(acts, i)) = Val(streak_out)
        /\ \A ts \in ActivityStamps \ {Unparseable} :
              DateOf(ts) \in ActDates =>
                  calculate_streak(Append(acts, [created_at |-> ts])) = Val(streak_out)

\* The rows D, D-1 and D again, out of order, give 2.
C2_Witness ==
    /\ streak_out = {2}
    /\ Len(acts) = 3
    /\ AllParse
    /\ DateOf(acts[3].created_at) = DateOf(acts[1].created_at)
    /\ DateOf(acts[2].created_at) = DateOf(acts[1].created_at) - 1

NoteOps == {"update_note", "restore_note", "toggle_favorite", "toggle_archive"}

\* C3: an update, restore, toggle-favorite or toggle-archive whose (note id, owner)
\* matches no note ends with HTTP 404 and leaves the notes table and the Vector
\* Index as they were.
C3_NotFoundIs404 ==
    [][ (last'.op \in NoteOps /\ Match(notes, last'.note_id, last'.user_id) = {}) =>
            (last'.status = 404 /\ notes' = notes /\ vectors' = vectors) ]_vars

Row(rows, note_id, user_id) == CHOOSE r \in Match(rows, note_id, user_id) : TRUE

FlagOf(op) == IF op = "toggle_favorite" THEN "is_favorite" ELSE "is_archived"

\* C4: when a successful toggle of an existing note is followed at once by the same
\* toggle of the same note, the first reports the negation of the flag's value
\* before it, the second reports that value, and the flag holds it again.
C4_ToggleTwiceRestores ==
    [][ (/\ last'.op \in {"toggle_favorite", "toggle_archive"}
         /\ last'.status = 200
         /\ last'.follows = last'.op) =>
            LET field == FlagOf(last'.op)
                original == Row(last.pre, last.note_id, last.user_id)[field]
            IN  /\ last.resp[field] = ~original
                /\ last'.resp[field] = original
                /\ Match(notes', last'.note_id, last'.user_id) # {}
                /\ Row(notes', last'.note_id, last'.user_id)[field] = original ]_vars

C4_Witness ==
    /\ last.op = "toggle_favorite"
    /\ last.status = 200
    /\ last.follows = "toggle_favorite"

\* C5: when a successful soft-delete of an existing note is followed at once by its
\* restore, the note has is_deleted false, the title, content, tags, is_favorite
\* and is_archived it had before the soft-delete, and an updated_at later than it
\* had before the soft-delete.
C5_SoftDeleteThenRestore ==
    [][ (/\ last'.op = "restore_note"
         /\ last'.status = 200
         /\ last'.follows = "soft_delete") =>
            LET before == Row(last.pre, last.note_id, last.user_id)
                after == Row(notes', last'.note_id, last'.user_id)
            IN  /\ Match(notes', last'.note_id, last'.user_id) # {}
                /\ after.is_deleted = FALSE
                /\ after.title = before.title
                /\ after.content = before.content
                /\ after.tags = before.tags
                /\ after.is_favorite = before.is_favorite
                /\ after.is_archived = before.is_archived
                /\ after.updated_at > before.updated_at ]_vars

C5_Witness ==
    /\ last.op = "restore_note"
    /\ last.status = 200
    /\ last.follows = "soft_delete"

\* C6: a successful update writes the supplied fields and leaves every other field
\* of the note as it was, refreshing updated_at; when neither title nor content is
\* supplied (tags only, say) it makes no embedding call and no upsert, and the
\* Vector Index is as it was.
C6_PartialUpdate ==
    [][ (last'.op = "update_note" /\ last'.status = 200) =>
            LET update == last'.args
                before == Row(notes, last'.note_id, last'.user_id)
                after == Row(notes', last'.note_id, last'.user_id)
                calls == { last'.calls[i] : i \in 1..Len(last'.calls) }
            IN  /\ Match(notes, last'.note_id, last'.user_id) # {}
                /\ Match(notes', last'.note_id, last'.user_id) # {}
                /\ \A f \in UpdateFields :
                      after[f] = IF Supplied(update[f]) THEN Val(update[f]) ELSE before[f]
                /\ after.id = before.id
                /\ after.user_id = before.user_id
                /\ after.created_at = before.created_at
                /\ after.updated_at > before.updated_at
                /\ notes' \ {after} = notes \ {before}
                /\ (~Supplied(update.title) /\ ~Supplied(update.content)) =>
                      (calls \cap {"embed", "upsert"} = {} /\ vectors' = vectors) ]_vars

\* An update that supplied only tags has changed the tags of a note.
C6_Witness ==
    /\ last.op = "update_note"
    /\ last.status = 200
    /\ SuppliedFields(last.args) = {"tags"}
    /\ Row(notes, last.note_id, last.user_id).tags # Row(last.pre, last.note_id, last.user_id).tags

\* C7: a search calls the completion provider at most once, and only after the
\* Vector Index query gave a match; when the query gives none, the search returns
\* the fixed answer with no result and calls no completion.
C7_CompletionOnlyAfterMatch ==
    (last.op = "search_notes") =>
        LET chats == { i \in 1..Len(last.calls) : last.calls[i] = "chat" }
            queried == \E i \in 1..Len(last.calls) : last.calls[i] = "query"
        IN  /\ Cardinality(chats) <= 1
            /\ \A i \in chats : i > 1 /\ last.calls[i - 1] = "query" /\ last.pre # {}
            /\ (queried /\ last.fail # "query" /\ last.pre = {}) =>
                  /\ last.status = 200
                  /\ last.resp = [answer |-> NoResultsAnswer, results |-> {}]
                  /\ chats = {}

\* A search whose query gave no match, in an index that holds entries.
C7_Witness ==
    /\ last.op = "search_notes"
    /\ last.fail = "none"
    /\ last.pre = {}
    /\ last.status = 200
    /\ vectors # {}

AllStatsQueries == { StatsQueries[i] : i \in 1..Len(StatsQueries) }

\* C8: stats never ends in an error: whichever queries fail it returns a report of
\* six numbers, and all of them are zero when every query fails.
C8_StatsNeverErrors ==
    (last.op = "get_user_stats") =>
        /\ last.status = 200
        /\ DOMAIN last.resp = {"total_notes", "favorites_count", "archived_count",
                               "searches_this_week", "ai_insights", "streak"}
        /\ \A f \in DOMAIN last.resp : last.resp[f] \in Nat
        /\ last.args.fails = AllStatsQueries => last.resp = ZeroStats

\* Every query failed for an owner who has a note.
C8_Witness ==
    /\ last.op = "get_user_stats"
    /\ last.args.fails = AllStatsQueries
    /\ \E r \in notes : r.user_id = last.user_id /\ ~r.is_deleted

\* What each query of stats gives when it succeeds.
ExpectedStreak(user_id) ==
    LET dates == { DateOf(r.created_at) : r \in { n \in notes : n.user_id = user_id } }
        D == CHOOSE d \in dates : \A e \in dates : e <= d
    IN  IF dates = {} THEN 0
        ELSE CHOOSE k \in 1..Cardinality(dates) :
                (\A j \in 0..(k - 1) : (D - j) \in dates) /\ (D - k) \notin dates

ExpectedStats(user_id) ==
    LET owned == { r \in notes : r.user_id = user_id }
        searches == Cardinality({ l \in search_logs : l.user_id = user_id
                                    /\ l.created_at >= clock - DaysPerWeek * DayLen })
    IN  [total_notes |-> Cardinality({ r \in owned : ~r.is_deleted }),
         favorites_count |-> Cardinality({ r \in owned : r.is_favorite /\ ~r.is_deleted }),
         archived_count |-> Cardinality({ r \in owned : r.is_archived /\ ~r.is_deleted }),
         searches_this_week |-> searches,
         ai_insights |-> searches,
         streak |-> ExpectedStreak(user_id)]

\* The fields of the report a query feeds.
FieldsOf(q) ==
    CASE q = "total" -> {"total_notes"}
      [] q = "favorites" -> {"favorites_count"}
      [] q = "archived" -> {"archived_count"}
      [] q = "searches" -> {"searches_this_week", "ai_insights"}
      [] q = "activities" -> {"streak"}

\* C9 as stated: when exactly one query of stats fails, every field of the report
\* that another query feeds carries the value that query gives.
C9_OneFailureZeroesOneField ==
    (last.op = "get_user_stats" /\ Cardinality(last.args.fails) = 1) =>
        \A q \in AllStatsQueries \ last.args.fails : \A f \in FieldsOf(q) :
            last.resp[f] = ExpectedStats(last.user_id)[f]

\* C9 amended: when exactly one query of stats fails and it is the weekly searches
\* or the streak activities, its own fields are zero and every other field carries
\* the value its query gives; when it is the total, the favorites or the archived
\* count, the whole report is zero.
C9_OneFailureAmended ==
    (last.op = "get_user_stats" /\ Cardinality(last.args.fails) = 1) =>
        IF last.args.fails \subseteq {"searches", "activities"}
        THEN \A q \in AllStatsQueries : \A f \in FieldsOf(q) :
                last.resp[f] = IF q \in last.args.fails THEN 0
                               ELSE ExpectedStats(last.user_id)[f]
        ELSE last.resp = ZeroStats

\* The favorites count alone failed for an owner who has notes: the report is zero.
C9_Witness ==
    /\ last.op = "get_user_stats"
    /\ last.args.fails = {"favorites"}
    /\ ExpectedStats(last.user_id).total_notes > 0
    /\ last.resp = ZeroStats

ToggleOps == {"toggle_favorite", "toggle_archive"}

ToggledOk(p) == p.pc = "done" /\ p.op \in ToggleOps /\ p.status = 200

\* C11: a toggle writes the negation of the value its select read, whatever the
\* note holds by then: when another process has written the flag in between, a
\* toggle that succeeds leaves the flag as it found it, and one of two concurrent
\* toggles is lost.
C11_ToggleWritesNegationOfRead ==
    [][\A w \in Workers :
          (/\ procs[w].pc = "update"
           /\ procs[w].op \in ToggleOps
           /\ procs'[w].pc = "done")
          => /\ procs'[w].status = 200
             /\ procs'[w].resp[procs[w].args.field] = ~Val(procs[w].local)
             /\ \A r \in Match(notes, procs[w].note_id, procs[w].user_id) :
                   LET field == procs[w].args.field
                       written == CHOOSE x \in Match(notes', r.id, r.user_id) : TRUE
                   IN  /\ Match(notes', r.id, r.user_id) # {}
                       /\ written[field] = ~Val(procs[w].local)
                       /\ (r[field] # Val(procs[w].local) => written[field] = r[field])]_vars

\* Two toggles of the favorite flag of one note, both finished with a success and
\* both having read FALSE, one of them overtaken by the other's write: the flag is
\* TRUE, not FALSE again.
C11_Witness ==
    /\ ToggledOk(procs["w1"]) /\ ToggledOk(procs["w2"])
    /\ procs["w1"].op = "toggle_favorite" /\ procs["w2"].op = "toggle_favorite"
    /\ procs["w1"].note_id = procs["w2"].note_id
    /\ procs["w1"].user_id = procs["w2"].user_id
    /\ procs["w1"].local = {FALSE} /\ procs["w2"].local = {FALSE}
    /\ procs["w2"].shared /\ ~procs["w1"].shared
    /\ \E r \in Match(notes, procs["w1"].note_id, procs["w1"].user_id) : r.is_favorite

\* C12: with no call failing and the requests one at a time, a Vector Entry with
\* id i exists exactly when a note with id i is in the Record Store.
C12_VectorIffNote == { e.id : e \in vectors } = { r.id : r \in notes }

\* C13: create embeds, then upserts the Vector Entry, then inserts the note.  A
\* failed embedding or upsert writes to neither store; a failed insert ends in an
\* error and leaves the Vector Entry with no note; a success returns and stores a
\* note with its three flags false and one timestamp for created and updated.
C13_CreateOrder ==
    [][last'.op = "create_note" =>
          LET f == last'.fail
              id == last'.note_id
              entries == { e \in vectors' : e.id = id }
          IN  /\ f \in {"embed", "upsert"} =>
                    /\ last'.calls = (IF f = "embed" THEN <<"embed">> ELSE <<"embed", "upsert">>)
                    /\ last'.status = 500
                    /\ vectors' = vectors /\ notes' = notes
              /\ f = "insert" =>
                    /\ last'.calls = <<"embed", "upsert", "insert">>
                    /\ last'.status = 500
                    /\ notes' = notes
                    /\ Cardinality(entries) = 1
                    /\ vectors' = vectors \cup entries
                    /\ \A r \in notes' : r.id # id
              /\ f = "none" =>
                    /\ last'.calls = <<"embed", "upsert", "insert">>
                    /\ last'.status = 200
                    /\ ~last'.resp.is_favorite /\ ~last'.resp.is_archived /\ ~last'.resp.is_deleted
                    /\ last'.resp.created_at = last'.resp.updated_at
                    /\ last'.resp.id = id
                    /\ notes' = notes \cup {last'.resp}
                    /\ Cardinality(entries) = 1
                    /\ vectors' = vectors \cup entries]_vars

\* A create whose insert failed: the request ended in an error, the entry is in
\* the Vector Index, no note has its id.
C13_Witness ==
    /\ last.op = "create_note" /\ last.fail = "insert" /\ last.status = 500
    /\ \E e \in vectors : e.id = last.note_id /\ e.metadata.user_id = last.user_id
    /\ \A r \in notes : r.id # last.note_id

\* C14: the hard delete of an existing note removes the note and then its Vector
\* Entry.  A failed Vector Index delete is swallowed: the answer is still
\* permanently_deleted and the note stays removed.  A failed Record Store delete
\* ends in an error, and the Vector Index delete is not called.
C14_HardDelete ==
    [][(last'.op = "delete_note" /\ last'.args.permanent /\ last'.pre # {}) =>
          LET f == last'.fail
              id == last'.note_id
              gone == Match(notes, id, last'.user_id)
          IN  /\ gone = last'.pre
              /\ f = "none" =>
                    /\ last'.calls = <<"delete", "pinecone_delete">>
                    /\ last'.status = 200 /\ last'.resp.status = "permanently_deleted"
                    /\ notes' = notes \ gone
                    /\ vectors' = { e \in vectors : e.id # id }
              /\ f = "pinecone_delete" =>
                    /\ last'.calls = <<"delete", "pinecone_delete">>
                    /\ last'.status = 200 /\ last'.resp.status = "permanently_deleted"
                    /\ notes' = notes \ gone
                    /\ vectors' = vectors
              /\ f = "delete" =>
                    /\ last'.calls = <<"delete">>
                    /\ last'.status = 500
                    /\ notes' = notes
                    /\ vectors' = vectors]_vars

\* A hard delete whose Vector Index delete failed: permanently_deleted, the note
\* gone, its entry still in the index.
C14_Witness ==
    /\ last.op = "delete_note" /\ last.args.permanent /\ last.fail = "pinecone_delete"
    /\ last.pre # {}
    /\ last.status = 200 /\ last.resp.status = "permanently_deleted"
    /\ Match(notes, last.note_id, last.user_id) = {}
    /\ \E e \in vectors : e.id = last.note_id

\* An update that names a note of its owner and supplies title or content.
Reembeds(r) ==
    /\ r.op = "update_note" /\ r.pre # {}
    /\ (Supplied(r.args.title) \/ Supplied(r.args.content))

\* C15: after a successful update that supplies title or content the note's
\* Vector Entry is the embedding of the note's title and content as the Record
\* Store holds them after the update.  The Record Store is written first: when the
\* embedding or the upsert fails the request ends in an error, the Record Store
\* has the new values and the Vector Index is as it was.
C15_ReembedAfterWrite ==
    [][Reembeds(last') =>
          LET f == last'.fail
              id == last'.note_id
              rows == Match(notes', id, last'.user_id)
              entries == { e \in vectors' : e.id = id }
              supplied(r) ==
                  /\ Supplied(last'.args.title) => r.title = Val(last'.args.title)
                  /\ Supplied(last'.args.content) => r.content = Val(last'.args.content)
          IN  /\ f = "none" =>
                    /\ last'.status = 200
                    /\ last'.calls = <<"update", "embed", "upsert">>
                    /\ rows = {last'.resp}
                    /\ supplied(last'.resp)
                    /\ Cardinality(entries) = 1
                    /\ \A e \in entries :
                          /\ e.metadata.title = last'.resp.title
                          /\ e.metadata.text = last'.resp.content
                          /\ e.values = generate_embedding(last'.resp.title, last'.resp.content)
                    /\ { e \in vectors' : e.id # id } = { e \in vectors : e.id # id }
              /\ f \in {"embed", "upsert"} =>
                    /\ last'.status = 500
                    /\ last'.calls = (IF f = "embed" THEN <<"update", "embed">>
                                      ELSE <<"update", "embed", "upsert">>)
                    /\ rows # {}
                    /\ \A r \in rows : supplied(r)
                    /\ vectors' = vectors
              /\ f = "update" =>
                    /\ last'.status = 500
                    /\ notes' = notes /\ vectors' = vectors]_vars

\* An update of the title whose embedding call failed: the note has the new
\* title, its Vector Entry the old one.
C15_Witness ==
    /\ Reembeds(last) /\ last.fail = "embed" /\ last.status = 500
    /\ Supplied(last.args.title)
    /\ \E r \in Match(notes, last.note_id, last.user_id), e \in vectors :
          /\ e.id = r.id
          /\ r.title = Val(last.args.title)
          /\ e.metadata.title # r.title

\* C16: a soft delete sets is_deleted and a later updated_at on the note, leaves
\* its other fields, and calls the Record Store only: the Vector Index is unchanged.
\* A search answers from the Vector Index entries of the owner, so it can return a
\* note whose is_deleted is TRUE.
C16_SoftDeleteKeepsEntry ==
    [][/\ (last'.op = "delete_note" /\ ~last'.args.permanent /\ last'.status = 200) =>
             /\ last'.calls = <<"update">>
             /\ vectors' = vectors
             /\ last'.pre = Match(notes, last'.note_id, last'.user_id)
             /\ notes' = (notes \ last'.pre) \cup
                         { [r EXCEPT !.is_deleted = TRUE, !.updated_at = clock] : r \in last'.pre }
             /\ \A r \in last'.pre : r.updated_at < clock
       /\ (last'.op = "search_notes" /\ last'.status = 200) =>
             /\ { res.id : res \in last'.resp.results } = { e.id : e \in last'.pre }
             /\ last'.pre \subseteq { e \in vectors : e.metadata.user_id = last'.user_id }]_vars

\* A search that returned a note its owner had moved to the trash.
C16_Witness ==
    /\ last.op = "search_notes" /\ last.status = 200
    /\ \E res \in last.resp.results, r \in notes :
          r.id = res.id /\ r.user_id = last.user_id /\ r.is_deleted

\* C17: empty_trash enumerates the owner's notes with is_deleted, deletes their
\* ids from the Vector Index (a failure of that call is passed over), deletes the
\* owner's notes with is_deleted from the Record Store, and answers the number it
\* enumerated.  Every other note and entry is left as it was.  When no other
\* process wrote to the owner's notes meanwhile, the notes removed from both stores
\* are the ones enumerated.
C17_EmptyTrash ==
    [][\A w \in Workers :
          LET p == procs[w]
              q == procs'[w]
              trash(rows, user_id) == { r \in rows : r.user_id = user_id /\ r.is_deleted }
          IN  /\ (Free(w) /\ q # p /\ q.op = "empty_trash") =>
                    /\ q.local.ids = { r.id : r \in trash(notes, q.user_id) }
                    /\ notes' = notes /\ vectors' = vectors
                    /\ (q.pc = "done") = (q.local.ids = {})
                    /\ q.pc = "done" => (q.status = 200 /\ q.resp.deleted_count = 0)
              /\ (InHand(p) /\ p.op = "empty_trash" /\ p.pc = "pinecone_delete" /\ q.pc = "delete") =>
                    /\ notes' = notes
                    /\ vectors' = IF q.local.raised THEN vectors
                                  ELSE { e \in vectors : e.id \notin p.local.ids }
              /\ (InHand(p) /\ p.op = "empty_trash" /\ p.pc = "delete" /\ q.pc = "done") =>
                    /\ vectors' = vectors
                    /\ notes' = notes \ trash(notes, p.user_id)
                    /\ q.status = 200
                    /\ q.resp.deleted_count = Cardinality(p.local.ids)
                    /\ ~q.shared =>
                          /\ q.local.removed = p.local.ids
                          /\ q.resp.deleted_count = Cardinality(q.local.removed)
                          /\ ~q.local.raised => \A e \in vectors' : e.id \notin p.local.ids]_vars

\* An empty_trash that answered a count of one and removed no note: another
\* process had emptied the same trash between its enumeration and its delete.
C17_Witness ==
    \E w \in Workers :
        /\ procs[w].pc = "done" /\ procs[w].op = "empty_trash" /\ procs[w].status = 200
        /\ procs[w].resp.deleted_count = 1
        /\ procs[w].local.removed = {}
        /\ procs[w].shared

\* The process that made the call of a step.
Stepped(w) == [procs'[w] EXCEPT !.shared = FALSE] # [procs[w] EXCEPT !.shared = FALSE]

RowsOf(rows, note_id) == { r \in rows : r.id = note_id }

\* C18: creates and updates of different notes are independent.  No call of a
\* create or an update changes a row or an entry of another id, in any
\* interleaving; and when no other process wrote to its note meanwhile, a request
\* finishes with its note in both stores as the request alone would leave it.
C18_DifferentNotesIndependent ==
    [][\A w \in Workers :
          LET p == procs[w]
              q == procs'[w]
              n == q.note_id
              row == CHOOSE r \in p.local : TRUE
          IN  (Stepped(w) /\ q.op \in {"create_note", "update_note"}) =>
                 /\ { r \in notes' : r.id # n } = { r \in notes : r.id # n }
                 /\ { e \in vectors' : e.id # n } = { e \in vectors : e.id # n }
                 /\ (Free(w) /\ q.op = "update_note") =>
                       /\ RowsOf(notes', n) =
                             { IF r.user_id = q.user_id THEN ApplyUpdate(r, q.args, q.now) ELSE r :
                                  r \in RowsOf(notes, n) }
                       /\ vectors' = vectors
                 /\ (p.pc = "insert" /\ q.pc = "done" /\ ~q.shared) =>
                       /\ q.status = 200
                       /\ RowsOf(notes', n) = {NoteData(n, p.args, p.now)}
                       /\ RowsOf(vectors', n) =
                             {VectorEntry(n, p.args.title, p.args.content, p.user_id, p.now)}
                 /\ (p.pc = "upsert" /\ p.op = "update_note" /\ q.pc = "done" /\ ~q.shared) =>
                       /\ q.status = 200
                       /\ RowsOf(notes', n) = p.local
                       /\ RowsOf(vectors', n) =
                             {VectorEntry(n, row.title, row.content, row.user_id, row.created_at)}]_vars

\* A create that ran from its first call to its last between the two calls of an
\* update of another note, and left its note in both stores.
C18_Witness ==
    \E w \in Workers, v \in Workers :
        /\ procs[w].pc = "done" /\ procs[w].op = "create_note" /\ procs[w].status = 200
        /\ procs[v].pc = "upsert" /\ procs[v].op = "update_note"
        /\ procs[v].note_id # procs[w].note_id
        /\ procs[v].now < procs[w].now
        /\ ~procs[w].shared /\ ~procs[v].shared
        /\ RowsOf(notes, procs[w].note_id) = {procs[w].resp}
        /\ RowsOf(notes, procs[v].note_id) = procs[v].local

\* C19: in a stats report with no query failing, total_notes is the number of the
\* owner's notes with is_deleted false, and no note with is_deleted counts in
\* favorites_count or archived_count: neither exceeds total_notes.
C19_StatsSkipTrash ==
    (last.op = "get_user_stats" /\ last.args.fails = {}) =>
        LET active == { r \in notes : r.user_id = last.user_id /\ ~r.is_deleted }
        IN  /\ last.status = 200
            /\ last.resp.total_notes = Cardinality(active)
            /\ last.resp.favorites_count = Cardinality({ r \in active : r.is_favorite })
            /\ last.resp.archived_count = Cardinality({ r \in active : r.is_archived })
            /\ last.resp.favorites_count <= last.resp.total_notes
            /\ last.resp.archived_count <= last.resp.total_notes

\* A report for an owner whose only note is a favorite, archived and in the trash:
\* the three counts are zero.
C19_Witness ==
    /\ last.op = "get_user_stats" /\ last.args.fails = {} /\ last.status = 200
    /\ \E r \in notes :
          r.user_id = last.user_id /\ r.is_deleted /\ r.is_favorite /\ r.is_archived
    /\ last.resp.total_notes = 0
    /\ last.resp.favorites_count = 0
    /\ last.resp.archived_count = 0

\* C20: the id, the owner and created_at of a note stay as create set them: no
\* update, soft delete, restore or toggle changes them in the Record Store, and the
\* Vector Entry an update upserts has the note's id, owner and created_at.
C20_IdOwnerCreatedFixed ==
    [][/\ \A r \in notes, x \in notes' :
             x.id = r.id => (x.user_id = r.user_id /\ x.created_at = r.created_at)
       /\ (Reembeds(last') /\ last'.status = 200) =>
             \A r \in last'.pre :
                /\ \E e \in vectors' : e.id = r.id
                /\ \A e \in vectors' :
                      e.id = r.id =>
                         /\ e.metadata.user_id = r.user_id
                         /\ e.metadata.created_at = r.created_at
                         /\ e.metadata.created_at < last'.resp.updated_at]_vars

\* An update of the title after the note was created: the note and the entry
\* upserted for it have the creation timestamp, earlier than updated_at.
C20_Witness ==
    /\ Reembeds(last) /\ last.status = 200
    /\ last.calls = <<"update", "embed", "upsert">>
    /\ \E r \in Match(notes, last.note_id, last.user_id), e \in vectors :
          /\ e.id = r.id
          /\ e.metadata.title = r.title
          /\ e.metadata.created_at = r.created_at
          /\ r.created_at < r.updated_at
          /\ \E p \in last.pre : p.id = r.id /\ p.created_at = r.created_at /\ p.title # r.title

\* The requests that write to a note on behalf of an owner.
OwnerWrites ==
    {"update_note", "delete_note", "restore_note", "toggle_favorite", "toggle_archive",
     "empty_trash"}

\* C21: a writing request made with owner u changes no note and no Vector Entry
\* of another owner; a hard delete with the id of another owner's note leaves that
\* note's Vector Entry in the index.
C21_OwnerIsolation ==
    [][last'.op \in OwnerWrites =>
          /\ { r \in notes' : r.user_id # last'.user_id } =
             { r \in notes : r.user_id # last'.user_id }
          /\ { e \in vectors' : e.metadata.user_id # last'.user_id } =
             { e \in vectors : e.metadata.user_id # last'.user_id }]_vars

\* C22: a search inserts one search_logs row when the Vector Index gave a match and
\* the completion returned, and only then: the insert is called in that case alone,
\* and it adds one row unless it raises.  A search with no match adds none.  An
\* insert that raises is passed over: the search answers with its results.  So
\* every row counted by searches_this_week is a search that had matches.
C22_SearchLogging ==
    [][/\ last'.op = "search_notes" =>
             LET f == last'.fail
                 matched == last'.pre # {}
                 added == search_logs' \ search_logs
                 called == \E i \in 1..Len(last'.calls) : last'.calls[i] = "insert"
             IN  /\ search_logs \subseteq search_logs'
                 /\ called = (matched /\ f # "chat")
                 /\ (added # {}) = (called /\ f # "log")
                 /\ added # {} =>
                       /\ Cardinality(added) = 1
                       /\ \A l \in added :
                             /\ l.user_id = last'.user_id
                             /\ l.results_count = Cardinality(last'.pre)
                             /\ l.results_count >= 1
                             /\ l.created_at = clock
                 /\ f = "log" =>
                       /\ last'.status = 200
                       /\ last'.resp.answer # NoResultsAnswer
                       /\ last'.resp.results = { SearchResult(m) : m \in last'.pre }
       /\ (last'.op = "get_user_stats" /\ last'.args.fails = {}) =>
             /\ search_logs' = search_logs
             /\ last'.resp.searches_this_week =
                   Cardinality({ l \in search_logs : l.user_id = last'.user_id /\ l.results_count >= 1 })]_vars

\* A search that had a match and whose log insert raised: it answered with its
\* results, and search_logs has no row.
C22_Witness ==
    /\ last.op = "search_notes" /\ last.fail = "log" /\ last.status = 200
    /\ last.pre # {}
    /\ last.resp.results # {}
    /\ search_logs = {}

\* C23: a soft or a hard delete whose note id and owner match no note does not
\* answer not-found: it answers moved_to_trash or permanently_deleted, and the
\* Record Store is as it was.
C23_DeleteMissingNote ==
    [][(/\ last'.op = "delete_note"
        /\ \A r \in notes : ~(r.id = last'.note_id /\ r.user_id = last'.user_id)) =>
          /\ last'.status = 200
          /\ last'.resp.status =
                (IF last'.args.permanent THEN "permanently_deleted" ELSE "moved_to_trash")
          /\ last'.resp.note_id = last'.note_id
          /\ notes' = notes]_vars

\* A hard delete with the id of a note of another owner: permanently_deleted, and
\* the note is in the Record Store.
C23_Witness ==
    /\ last.op = "delete_note" /\ last.args.permanent
    /\ last.status = 200 /\ last.resp.status = "permanently_deleted"
    /\ last.pre = {}
    /\ \E r \in notes : r.id = last.note_id /\ r.user_id # last.user_id

====
